---------------------------- MODULE Spec2Model ----------------------------
(***************************************************************************)
(* Vulcany: the generation-stamped GPU resource pool                       *)
(* (vulcany/src/backend/gpu_resources.rs) and the task-graph builder       *)
(* (vulcany/src/taskgraph/task_graph.rs).                                  *)
(*                                                                         *)
(* A u64 is kept as four 16-bit limbs, so that the shifts, the bitwise OR  *)
(* and the MASK of encode / decode_as_usize keep their width.              *)
(***************************************************************************)
EXTENDS Integers, Sequences, FiniteSets, TLC

(***************************************************************************)
(* Bounds of the model.                                                    *)
(***************************************************************************)
\* add calls in one behaviour
MaxAdds == 11
\* successful delete calls in one behaviour
MaxDeletes == 1
\* tasks in one task list
MaxTasks == 3
\* resource accesses declared in one task list, over all its tasks
MaxDecls == 3
\* resource accesses declared in one task list whose tasks name one buffer
MaxBufferDecls == 4
\* threads that share one device
MaxThreads == 2
\* create_buffer calls of the threads in one behaviour
MaxCreates == 2
\* successful delete calls of a caller that passes live handles only
MaxFrees == 2
\* swapchain_desc.image_count of create_swapchain
MaxImages == 3
\* acquire_image calls on one swapchain
MaxAcquires == 3
\* present calls on one swapchain
MaxPresents == 3
\* block_size of the FreeListAllocator
BlockSize == 4
\* memory blocks one FreeListAllocator creates
MaxBlocks == 2
\* allocate calls on one FreeListAllocator
MaxAllocates == 4
\* commands of one CommandRecorder that resolve a BufferID
MaxRecords == 3

(***************************************************************************)
(* Program constants.                                                      *)
(***************************************************************************)
MASK == 65535
PAGE_SIZE == 10

\* Option::None; the resources are the positive numbers
None == 0

VARIABLES
    data,           \* Vec<[(Option<Resource>, u64); PAGE_SIZE]>
    free_indices,   \* Vec<u64>
    curr_page,      \* usize
    curr_index,     \* usize
    last,           \* the last call on the pool and what it returned
    handle_of,      \* history: handle_of[k] is the handle the add of resource k returned
    alive,          \* history: the resources added and neither deleted nor dropped
    stale,          \* history: every handle a delete has succeeded on
    nadds,          \* history: number of add calls of this behaviour
    ndeletes,       \* history: number of successful delete calls of this behaviour
    tasks,          \* TaskGraph::tasks, Vec<Task>
    compiled,       \* compile(self) has consumed the graph
    edges,          \* create_adjacency_list: edges after the pairwise scan
    adj_list,       \* compile: adj_list, the reduced adjacency list
    batches,        \* compile: batches
    build,          \* compile, run step by step: where it is, and its locals
    pool_lock,      \* InnerDevice::buffer_pool, the RwLock around the pool
    pc,             \* per thread: the device call it is in, and its handle
    recorder,       \* CommandRecorder: remembered_buffer_ids, and what the last command used
    calls,          \* per thread: the pool locks its call still takes, and its guards
    poisoned,       \* the pools whose RwLock is poisoned
    swapchain,      \* InnerSwapchain, the images the driver has handed out, the calls made
    allocator       \* FreeListAllocator: memory_blocks, the allocations out, the last call

poolVars == <<data, free_indices, curr_page, curr_index>>
histVars == <<handle_of, alive, stale, nadds, ndeletes>>
graphVars == <<tasks, compiled, edges, adj_list, batches, build>>
lockVars == <<pool_lock, pc>>
heldVars == <<calls, poisoned>>
sideVars == <<recorder, heldVars, swapchain, allocator>>
vars == <<data, free_indices, curr_page, curr_index, last, handle_of, alive,
          stale, nadds, ndeletes, tasks, compiled, edges, adj_list, batches,
          build, pool_lock, pc, recorder, calls, poisoned, swapchain, allocator>>

(***************************************************************************)
(* u64 arithmetic on 16-bit limbs: b0 is bits 0..15, b48 is bits 48..63.   *)
(***************************************************************************)
RECURSIVE BitOr(_, _)
BitOr(a, b) ==
    IF a = 0 THEN b
    ELSE IF b = 0 THEN a
    ELSE (IF a % 2 = 1 \/ b % 2 = 1 THEN 1 ELSE 0) + 2 * BitOr(a \div 2, b \div 2)

\* a small number as u64 (the model's numbers stay below 2^31)
U64(x) ==
    [b48 |-> 0, b32 |-> 0, b16 |-> (x \div (MASK + 1)) % (MASK + 1), b0 |-> x % (MASK + 1)]

\* w << 16 (the bits shifted out at the top are lost)
Shl16(w) == [b48 |-> w.b32, b32 |-> w.b16, b16 |-> w.b0, b0 |-> 0]

\* w >> 16
Shr16(w) == [b48 |-> 0, b32 |-> w.b48, b16 |-> w.b32, b0 |-> w.b16]

\* a | b
Or64(a, b) ==
    [b48 |-> BitOr(a.b48, b.b48), b32 |-> BitOr(a.b32, b.b32),
     b16 |-> BitOr(a.b16, b.b16), b0 |-> BitOr(a.b0, b.b0)]

\* (w & MASK) as a number
AndMask(w) == w.b0 % (MASK + 1)

\* (page << 32) | (index << 16) | version
encode(page, index, version) ==
    Or64(Or64(Shl16(Shl16(U64(page))), Shl16(U64(index))), U64(version))

\* ((id >> 32) & MASK, (id >> 16) & MASK, id & MASK)
decode_as_usize(id) ==
    [page |-> AndMask(Shr16(Shr16(id))), index |-> AndMask(Shr16(id)), version |-> AndMask(id)]

(***************************************************************************)
(* GpuResourcePool                                                         *)
(***************************************************************************)
\* std::array::from_fn(|_| (None, 0))
EmptyPage == [i \in 0 .. PAGE_SIZE - 1 |-> [res |-> None, version |-> 0]]

\* data[page][index] is in bounds (otherwise the indexing panics)
InBounds(d) == d.page < Len(data) /\ d.index < PAGE_SIZE

\* data[page][index]; page p of the Vec is data[p + 1]
SlotAt(page, index) == data[page + 1][index]

\* panic!("Attempted acess with invalid ID")
Invalid == [ok |-> FALSE, res |-> None]
Ok(r) == [ok |-> TRUE, res |-> r]

\* what get_ref(id) returns in the current state
get_ref_value(id) ==
    LET d == decode_as_usize(id) IN
    IF ~InBounds(d) THEN Invalid
    ELSE LET s == SlotAt(d.page, d.index) IN
         IF s.res /= None
         THEN IF s.version = d.version THEN Ok(s.res) ELSE Invalid
         ELSE Invalid

\* what delete(id) returns in the current state
delete_value(id) ==
    LET d == decode_as_usize(id) IN
    IF ~InBounds(d) THEN Invalid
    ELSE LET s == SlotAt(d.page, d.index) IN
         IF s.res /= None
         THEN IF s.version = d.version THEN Ok(s.res) ELSE Invalid
         ELSE Invalid

\* GpuResourcePool::new
PoolNew ==
    /\ data = <<EmptyPage>>
    /\ free_indices = <<>>
    /\ curr_index = 0
    /\ curr_page = 0
    /\ last = [op |-> "new", id |-> U64(0), ok |-> TRUE, res |-> None]
    /\ handle_of = <<>>
    /\ alive = {}
    /\ stale = {}
    /\ nadds = 0
    /\ ndeletes = 0

\* the resource a caller passes to add: the k-th resource ever added is k
NextResource == Len(handle_of) + 1

\* the history kept for an add of res that returned id
Issued(id, res) ==
    /\ last' = [op |-> "add", id |-> id, ok |-> TRUE, res |-> res]
    /\ handle_of' = Append(handle_of, id)
    /\ alive' = alive \cup {res}
    /\ nadds' = nadds + 1
    /\ UNCHANGED <<stale, ndeletes>>

\* add, free list empty: the next never-used slot, version 0
add_fresh(res) ==
    LET grow == curr_index = PAGE_SIZE
        page == IF grow THEN curr_page + 1 ELSE curr_page
        index == IF grow THEN 0 ELSE curr_index
        pages == IF grow THEN Append(data, EmptyPage) ELSE data
        id == encode(page, index, 0)
    IN  /\ data' = [pages EXCEPT ![page + 1][index] = [res |-> res, version |-> 0]]
        /\ curr_page' = page
        /\ curr_index' = index + 1
        /\ UNCHANGED free_indices
        /\ Issued(id, res)

\* add_reuse without the increment of the version
add_reuse_same_version(res) ==
    LET id == free_indices[Len(free_indices)]
        d == decode_as_usize(id)
    IN  /\ free_indices' = SubSeq(free_indices, 1, Len(free_indices) - 1)
        /\ data' = [data EXCEPT ![d.page + 1][d.index] = [res |-> res, version |-> d.version]]
        /\ UNCHANGED <<curr_page, curr_index>>
        /\ Issued(encode(d.page, d.index, d.version), res)

\* add_reuse that leaves the handle it reuses in the free list
add_reuse_keeps_entry(res) ==
    LET id == free_indices[Len(free_indices)]
        d == decode_as_usize(id)
    IN  /\ UNCHANGED free_indices
        /\ data' = [data EXCEPT ![d.page + 1][d.index] = [res |-> res, version |-> d.version + 1]]
        /\ UNCHANGED <<curr_page, curr_index>>
        /\ Issued(encode(d.page, d.index, d.version + 1), res)

\* add, free list not empty: the slot of the last freed handle, version + 1
add_reuse(res) ==
    LET id == free_indices[Len(free_indices)]
        d == decode_as_usize(id)
    IN  /\ free_indices' = SubSeq(free_indices, 1, Len(free_indices) - 1)
        /\ data' = [data EXCEPT ![d.page + 1][d.index] = [res |-> res, version |-> d.version + 1]]
        /\ UNCHANGED <<curr_page, curr_index>>
        /\ Issued(encode(d.page, d.index, d.version + 1), res)

\* GpuResourcePool::add
add ==
    /\ nadds < MaxAdds
    /\ IF free_indices = <<>> THEN add_fresh(NextResource) ELSE add_reuse(NextResource)
    /\ UNCHANGED graphVars

\* delete_live that bumps the version when the slot is emptied
delete_live_bumps(id, d, res) ==
    /\ data' = [data EXCEPT ![d.page + 1][d.index] = [res |-> None, version |-> d.version + 1]]
    /\ free_indices' = Append(free_indices, id)
    /\ last' = [op |-> "delete", id |-> id, ok |-> TRUE, res |-> res]
    /\ stale' = stale \cup {id}
    /\ alive' = alive \ {res}
    /\ ndeletes' = ndeletes + 1
    /\ UNCHANGED <<curr_page, curr_index, handle_of, nadds>>

\* delete, the version matches: the slot is emptied and the handle freed
delete_live(id, d, res) ==
    /\ data' = [data EXCEPT ![d.page + 1][d.index] = [res |-> None, version |-> d.version]]
    /\ free_indices' = Append(free_indices, id)
    /\ last' = [op |-> "delete", id |-> id, ok |-> TRUE, res |-> res]
    /\ stale' = stale \cup {id}
    /\ alive' = alive \ {res}
    /\ ndeletes' = ndeletes + 1
    /\ UNCHANGED <<curr_page, curr_index, handle_of, nadds>>

\* delete, the panics: res_opt.take() has emptied an occupied slot before the
\* versions are compared, and the unwinding drops the resource taken
delete_invalid(id, d) ==
    /\ last' = [op |-> "delete", id |-> id, ok |-> FALSE, res |-> None]
    /\ IF InBounds(d)
       THEN /\ data' = [data EXCEPT ![d.page + 1][d.index].res = None]
            /\ alive' = alive \ {SlotAt(d.page, d.index).res}
       ELSE UNCHANGED <<data, alive>>
    /\ UNCHANGED <<free_indices, curr_page, curr_index, handle_of, stale, nadds, ndeletes>>

\* GpuResourcePool::delete
delete(id) ==
    /\ UNCHANGED graphVars
    /\ LET r == delete_value(id) IN
       IF r.ok
       THEN ndeletes < MaxDeletes /\ delete_live(id, decode_as_usize(id), r.res)
       ELSE delete_invalid(id, decode_as_usize(id))

\* GpuResourcePool::get_ref
get_ref(id) ==
    LET r == get_ref_value(id) IN
    /\ last' = [op |-> "get_ref", id |-> id, ok |-> r.ok, res |-> r.res]
    /\ UNCHANGED <<poolVars, histVars, graphVars>>

\* the handles a caller passes: those add has returned
Handles == {handle_of[k] : k \in DOMAIN handle_of} \cup stale

(***************************************************************************)
(* InnerDevice: the buffer pool behind its RwLock, shared by the threads   *)
(***************************************************************************)
Threads == 1 .. MaxThreads

\* a thread outside of every device call
Idle == [at |-> "idle", id |-> U64(0)]

\* RwLock::new(GpuResourcePool::new()); no thread is in a call
DeviceNew ==
    /\ pool_lock = [writer |-> FALSE, readers |-> 0, poisoned |-> FALSE]
    /\ pc = [t \in Threads |-> Idle]

\* buffer_pool.write().unwrap() returns: no guard is out and the lock is not poisoned
write_unwrap ==
    /\ ~pool_lock.writer /\ pool_lock.readers = 0 /\ ~pool_lock.poisoned
    /\ pool_lock' = [pool_lock EXCEPT !.writer = TRUE]

\* buffer_pool.read().unwrap() returns: no write guard is out and the lock is not poisoned
read_unwrap ==
    /\ ~pool_lock.writer /\ ~pool_lock.poisoned
    /\ pool_lock' = [pool_lock EXCEPT !.readers = @ + 1]

\* the write guard is dropped, by a panic (which poisons the lock) or not
drop_write(panicked) ==
    pool_lock' = [pool_lock EXCEPT !.writer = FALSE, !.poisoned = @ \/ panicked]

\* the read guard is dropped
drop_read == pool_lock' = [pool_lock EXCEPT !.readers = @ - 1]

\* a thread enters a call and has its guard
enter(t, at, id) ==
    /\ pc[t] = Idle
    /\ pc' = [pc EXCEPT ![t] = [at |-> at, id |-> id]]
    /\ UNCHANGED <<poolVars, histVars, last, graphVars, sideVars>>

\* create_buffer: self.buffer_pool.write().unwrap()
create_buffer_write(t) ==
    /\ nadds < MaxCreates
    /\ write_unwrap
    /\ enter(t, "create_buffer", U64(0))

\* create_buffer: .add(BufferSlot { .. }), and the guard is dropped
create_buffer_add(t) ==
    /\ pc[t].at = "create_buffer"
    /\ add
    /\ drop_write(FALSE)
    /\ pc' = [pc EXCEPT ![t] = Idle]
    /\ UNCHANGED sideVars

\* destroy_buffer taking the lock shared
destroy_buffer_read(t, id) ==
    /\ read_unwrap
    /\ enter(t, "destroy_buffer", id)

\* destroy_buffer: self.buffer_pool.write().unwrap()
destroy_buffer_write(t, id) ==
    /\ delete_value(id).ok => ndeletes < MaxDeletes
    /\ write_unwrap
    /\ enter(t, "destroy_buffer", id)

\* destroy_buffer: .delete(id.id), and the guard is dropped
destroy_buffer_delete(t) ==
    /\ pc[t].at = "destroy_buffer"
    /\ delete(pc[t].id)
    /\ drop_write(~delete_value(pc[t].id).ok)
    /\ pc' = [pc EXCEPT ![t] = Idle]
    /\ UNCHANGED sideVars

\* write_data_to_buffer: let buffer_pool = self.buffer_pool.read().unwrap()
write_data_to_buffer_read(t, id) ==
    /\ read_unwrap
    /\ enter(t, "write_data_to_buffer", id)

\* write_data_to_buffer: buffer_pool.get_ref(buffer_id.id), the copy, and
\* the guard is dropped at the end of the function
write_data_to_buffer_get_ref(t) ==
    /\ pc[t].at = "write_data_to_buffer"
    /\ get_ref(pc[t].id)
    /\ drop_read
    /\ pc' = [pc EXCEPT ![t] = Idle]
    /\ UNCHANGED sideVars

(***************************************************************************)
(* CommandRecorder: the BufferIDs it has resolved                          *)
(***************************************************************************)
\* remembered_buffer_ids: HashMap::new(); no command recorded
RecorderNew ==
    recorder = [remembered_buffer_ids |-> <<>>,
                n |-> 0, id |-> U64(0), ok |-> TRUE, buffer |-> None]

\* remembered_buffer_ids.get(&id): the entry of id, if any
remembered(id) ==
    {e \in {recorder.remembered_buffer_ids[k] : k \in DOMAIN recorder.remembered_buffer_ids} :
        e.id = id}

\* CommandRecorder::check_and_remeber_buffer_id, as bind_vertex_buffer,
\* bind_index_buffer, pipeline_barrier and copy_buffer call it: the vk::Buffer
\* the command uses (the vk::Buffer of resource k is k)
check_and_remeber_buffer_id(id) ==
    /\ recorder.n < MaxRecords
    /\ UNCHANGED <<lockVars, heldVars, swapchain, allocator>>
    /\ IF remembered(id) /= {}
       THEN /\ recorder' = [recorder EXCEPT
                               !.n = @ + 1, !.id = id, !.ok = TRUE,
                               !.buffer = (CHOOSE e \in remembered(id) : TRUE).buffer]
            /\ UNCHANGED <<poolVars, histVars, last, graphVars>>
       ELSE /\ get_ref(id)
            /\ recorder' = [recorder EXCEPT
                               !.n = @ + 1, !.id = id,
                               !.ok = get_ref_value(id).ok,
                               !.buffer = get_ref_value(id).res,
                               !.remembered_buffer_ids =
                                   IF get_ref_value(id).ok
                                   THEN Append(@, [id |-> id, buffer |-> get_ref_value(id).res])
                                   ELSE @]

(***************************************************************************)
(* InnerDevice: the RwLocks of its pools, as the calls take them           *)
(***************************************************************************)
\* buffer_pool, image_pool, image_view_pool of InnerDevice
Pools == {"buffer_pool", "image_pool", "image_view_pool"}

\* pool.read().unwrap(), pool.write().unwrap(), and the drop of the guard
Rd(pool) == [do |-> "read", pool |-> pool]
Wr(pool) == [do |-> "write", pool |-> pool]
Dr(pool) == [do |-> "drop", pool |-> pool]

\* create_buffer and destroy_buffer: the write guard is a temporary
create_buffer_locks == <<Wr("buffer_pool"), Dr("buffer_pool")>>

\* write_data_to_buffer and write_buffer: the read guard lives to the end
write_data_to_buffer_locks == <<Rd("buffer_pool"), Dr("buffer_pool")>>

\* create_image and destroy_image
create_image_locks == <<Wr("image_pool"), Dr("image_pool")>>

\* create_image_view: the read guard of the image pool is held while the
\* view is added under a temporary write guard of the view pool
create_image_view_locks ==
    <<Rd("image_pool"), Wr("image_view_pool"), Dr("image_view_pool"), Dr("image_pool")>>

\* destroy_image_view that looks up the parent image under its write guard
destroy_image_view_locks_image ==
    <<Wr("image_view_pool"), Wr("image_pool"), Dr("image_pool"), Dr("image_view_pool")>>

\* destroy_image_view
destroy_image_view_locks == <<Wr("image_view_pool"), Dr("image_view_pool")>>

\* write_image, and check_and_remeber_image_view_id
write_image_locks == <<Rd("image_view_pool"), Dr("image_view_pool")>>

\* check_and_remeber_image_id
check_and_remeber_image_id_locks == <<Rd("image_pool"), Dr("image_pool")>>

\* pipeline_barrier of src/src: both read guards live to the end, and are
\* dropped in the reverse order of their declaration
pipeline_barrier_locks ==
    <<Rd("image_pool"), Rd("buffer_pool"), Dr("buffer_pool"), Dr("image_pool")>>

\* Drop for InnerSwapchain, one round of its loop: the write guard of the
\* image pool is a temporary, gone before destroy_image_view is called
drop_swapchain_locks ==
    <<Wr("image_pool"), Dr("image_pool")>> \o destroy_image_view_locks

\* the calls of the threads
Operations ==
    {create_buffer_locks, write_data_to_buffer_locks, create_image_locks,
     create_image_view_locks, destroy_image_view_locks, write_image_locks,
     check_and_remeber_image_id_locks, pipeline_barrier_locks, drop_swapchain_locks}

\* a thread outside of every call
NoCall == [todo |-> <<>>, guards |-> <<>>]

\* no call is running, no lock is poisoned
LocksNew ==
    /\ calls = [t \in Threads |-> NoCall]
    /\ poisoned = {}

\* thread t holds a guard on pool in one of the modes
holds(t, pool, modes) ==
    \E k \in DOMAIN calls[t].guards :
        calls[t].guards[k].pool = pool /\ calls[t].guards[k].do \in modes

\* RwLock: a reader enters unless a writer is in, a writer enters alone
available(step) ==
    IF step.do = "read"
    THEN \A u \in Threads : ~holds(u, step.pool, {"write"})
    ELSE \A u \in Threads : ~holds(u, step.pool, {"read", "write"})

\* the guards without the last one taken on pool
without(guards, pool) ==
    LET k == CHOOSE k \in DOMAIN guards :
                 /\ guards[k].pool = pool
                 /\ \A j \in DOMAIN guards : guards[j].pool = pool => j <= k
    IN  SubSeq(guards, 1, k - 1) \o SubSeq(guards, k + 1, Len(guards))

\* a thread enters a call
begin(t, op) ==
    /\ calls[t] = NoCall
    /\ calls' = [calls EXCEPT ![t] = [todo |-> op, guards |-> <<>>]]
    /\ UNCHANGED poisoned

\* read() or write() returns the guard
acquire(t) ==
    /\ calls[t].todo /= <<>>
    /\ LET step == Head(calls[t].todo) IN
       /\ step.do \in {"read", "write"}
       /\ step.pool \notin poisoned
       /\ available(step)
       /\ calls' = [calls EXCEPT ![t] = [todo |-> Tail(@.todo), guards |-> Append(@.guards, step)]]
    /\ UNCHANGED poisoned

\* a guard goes out of scope; after the last step the call returns
drop_guard(t) ==
    /\ calls[t].todo /= <<>>
    /\ LET step == Head(calls[t].todo) IN
       /\ step.do = "drop"
       /\ calls' = [calls EXCEPT ![t] = [todo |-> Tail(@.todo), guards |-> without(@.guards, step.pool)]]
    /\ UNCHANGED poisoned

\* the call panics: unwrap on a poisoned lock, or get_ref, delete or expect
\* under a guard. The unwinding drops the guards; a write guard dropped in a
\* panic poisons its lock
unwind(t) ==
    /\ calls[t].todo /= <<>>
    /\ \/ Head(calls[t].todo).do \in {"read", "write"} /\ Head(calls[t].todo).pool \in poisoned
       \/ calls[t].guards /= <<>>
    /\ poisoned' = poisoned \cup {pool \in Pools : holds(t, pool, {"write"})}
    /\ calls' = [calls EXCEPT ![t] = NoCall]

(***************************************************************************)
(* Swapchain                                                               *)
(***************************************************************************)
\* the semaphores of create_swapchain, by their number in creation order:
\* the loop creates the image semaphore and the present semaphore of an
\* image in turn
image_semaphore(image_count) == [i \in 0 .. image_count - 1 |-> 2 * i]
preset_semaphore(image_count) == [i \in 0 .. image_count - 1 |-> 2 * i + 1]

\* Device::create_swapchain with swapchain_desc.image_count = image_count:
\* ArrayQueue::new(image_count), timeline 0, no image acquired
create_swapchain(image_count) ==
    swapchain = [image_semaphore |-> image_semaphore(image_count),
                 preset_semaphore |-> preset_semaphore(image_count),
                 curr_img_indeices |-> <<>>,
                 capacity |-> image_count,
                 timeline |-> 0,
                 acquired |-> {},
                 acquires |-> <<>>,
                 presents |-> <<>>]

\* the swapchain of a device that is not asked for another image count
SwapchainNew == create_swapchain(MaxImages)

\* ArrayQueue::push: refused when the queue is full
push(queue, capacity, x) == IF Len(queue) < capacity THEN Append(queue, x) ELSE queue

\* the timeline after an acquire_image call
next_timeline_index == (swapchain.timeline + 1) % Cardinality(DOMAIN swapchain.image_semaphore)

\* InnerSwapchain::acquire_image, the driver hands out the image index, one
\* of the images the application does not hold
acquire_image(index) ==
    /\ Len(swapchain.acquires) < MaxAcquires
    /\ index \in DOMAIN swapchain.preset_semaphore
    /\ index \notin swapchain.acquired
    /\ swapchain' = [swapchain EXCEPT
           !.timeline = next_timeline_index,
           !.curr_img_indeices = push(@, swapchain.capacity, index),
           !.acquired = @ \cup {index},
           !.acquires = Append(@, [ok |-> TRUE, index |-> index,
                                   sem |-> swapchain.image_semaphore[swapchain.timeline],
                                   present |-> swapchain.preset_semaphore[index]])]

\* acquire_image, acquire_next_image2 fails: expect panics after the
\* timeline has moved on and before anything is pushed
acquire_image_fails ==
    /\ Len(swapchain.acquires) < MaxAcquires
    /\ swapchain' = [swapchain EXCEPT
           !.timeline = next_timeline_index,
           !.acquires = Append(@, [ok |-> FALSE, index |-> 0,
                                   sem |-> swapchain.image_semaphore[swapchain.timeline],
                                   present |-> 0])]

\* present that takes the image acquired last
present_newest(ok) ==
    /\ Len(swapchain.presents) < MaxPresents
    /\ IF swapchain.curr_img_indeices = <<>>
       THEN /\ ok
            /\ swapchain' = [swapchain EXCEPT !.presents = Append(@, [ok |-> FALSE, none |-> TRUE, index |-> 0, sem |-> 0])]
       ELSE LET index == swapchain.curr_img_indeices[Len(swapchain.curr_img_indeices)] IN
            swapchain' = [swapchain EXCEPT
                !.curr_img_indeices = SubSeq(@, 1, Len(@) - 1),
                !.acquired = IF ok THEN @ \ {index} ELSE @,
                !.presents = Append(@, [ok |-> ok, none |-> FALSE, index |-> index,
                                        sem |-> swapchain.preset_semaphore[index]])]

\* InnerSwapchain::present: returns at once on an empty queue; otherwise pops
\* the oldest index and presents it, waiting on its present semaphore (ok),
\* or queue_present fails and expect panics after the pop (~ok)
present(ok) ==
    /\ Len(swapchain.presents) < MaxPresents
    /\ IF swapchain.curr_img_indeices = <<>>
       THEN /\ ok
            /\ swapchain' = [swapchain EXCEPT !.presents = Append(@, [ok |-> FALSE, none |-> TRUE, index |-> 0, sem |-> 0])]
       ELSE LET index == Head(swapchain.curr_img_indeices) IN
            swapchain' = [swapchain EXCEPT
                !.curr_img_indeices = Tail(@),
                !.acquired = IF ok THEN @ \ {index} ELSE @,
                !.presents = Append(@, [ok |-> ok, none |-> FALSE, index |-> index,
                                        sem |-> swapchain.preset_semaphore[index]])]

(***************************************************************************)
(* FreeListAllocator                                                       *)
(***************************************************************************)
\* x & !m, bit by bit
RECURSIVE AndNot(_, _)
AndNot(x, m) ==
    IF x = 0 THEN 0
    ELSE (IF x % 2 = 1 /\ m % 2 = 0 THEN 1 ELSE 0) + 2 * AndNot(x \div 2, m \div 2)

\* align_up that rounds down to the alignment
align_down(offset, alignment) == AndNot(offset, alignment - 1)

\* GpuAllocator::align_up
align_up(offset, alignment) == AndNot(offset + alignment - 1, alignment - 1)

\* BTreeMap::insert and BTreeMap::remove on free_ranges (offset -> size)
insert(free_ranges, offset, size) ==
    [o \in DOMAIN free_ranges \cup {offset} |-> IF o = offset THEN size ELSE free_ranges[o]]
remove(free_ranges, offset) == [o \in DOMAIN free_ranges \ {offset} |-> free_ranges[o]]

\* FreeListAllocator::new: no memory block yet
AllocatorNew ==
    allocator = [memory_blocks |-> <<>>, live |-> {}, nallocates |-> 0,
                 last |-> [op |-> "new", memory |-> 0, offset |-> 0, size |-> 0, alignment |-> 1]]

\* create_new_block: one free range, the whole block
create_new_block == insert(<<>>, 0, BlockSize)

\* the free range at offset of the block takes size bytes at alignment
fits(free_ranges, offset, size, alignment) ==
    free_ranges[offset] >= size + (align_up(offset, alignment) - offset)

\* allocate, from the free range at offset of block b: the range is removed,
\* the padding before the aligned offset and the rest behind the allocation
\* are inserted as free ranges
allocate_from(b, offset, size, alignment) ==
    LET free_ranges == allocator.memory_blocks[b]
        range_size == free_ranges[offset]
        aligned_offset == align_up(offset, alignment)
        padding == aligned_offset - offset
        removed == remove(free_ranges, offset)
        padded == IF padding > 0 THEN insert(removed, offset, padding) ELSE removed
        rest == IF range_size > size + padding
                THEN insert(padded, aligned_offset + size, range_size - size - padding)
                ELSE padded
        allocation == [memory |-> b, offset |-> aligned_offset, size |-> size]
    IN  allocator' = [allocator EXCEPT
            !.memory_blocks[b] = rest,
            !.live = @ \cup {allocation},
            !.nallocates = @ + 1,
            !.last = [op |-> "allocate", memory |-> b, offset |-> aligned_offset,
                      size |-> size, alignment |-> alignment]]

\* allocate, no free range fits: a new block, the allocation at its offset 0
allocate_new_block(size, alignment) ==
    LET new_block == insert(remove(create_new_block, 0), size, BlockSize - size)
        b == Len(allocator.memory_blocks) + 1
    IN  allocator' = [allocator EXCEPT
            !.memory_blocks = Append(@, new_block),
            !.live = @ \cup {[memory |-> b, offset |-> 0, size |-> size]},
            !.nallocates = @ + 1,
            !.last = [op |-> "allocate", memory |-> b, offset |-> 0,
                      size |-> size, alignment |-> alignment]]

\* the blocks with a free range that fits, and the first such range of a block
fitting(size, alignment) ==
    {b \in DOMAIN allocator.memory_blocks :
        \E o \in DOMAIN allocator.memory_blocks[b] :
            fits(allocator.memory_blocks[b], o, size, alignment)}
first_fit(b, size, alignment) ==
    LET offsets == {o \in DOMAIN allocator.memory_blocks[b] :
                       fits(allocator.memory_blocks[b], o, size, alignment)}
    IN  CHOOSE o \in offsets : \A x \in offsets : o <= x

\* FreeListAllocator::allocate: panics on size >= block_size; else the first
\* free range that fits, blocks in creation order and ranges by offset
allocate(size, alignment) ==
    /\ allocator.nallocates < MaxAllocates
    /\ IF size >= BlockSize
       THEN allocator' = [allocator EXCEPT
                !.nallocates = @ + 1,
                !.last = [op |-> "panic", memory |-> 0, offset |-> 0,
                          size |-> size, alignment |-> alignment]]
       ELSE IF fitting(size, alignment) /= {}
       THEN LET b == CHOOSE b \in fitting(size, alignment) :
                         \A x \in fitting(size, alignment) : b <= x
            IN  allocate_from(b, first_fit(b, size, alignment), size, alignment)
       ELSE /\ Len(allocator.memory_blocks) < MaxBlocks
            /\ allocate_new_block(size, alignment)

\* FreeListAllocator::free of an allocation the caller holds: its range is
\* inserted into the free ranges of its block, nothing is merged
free(allocation) ==
    /\ allocation \in allocator.live
    /\ allocator' = [allocator EXCEPT
           !.memory_blocks[allocation.memory] = insert(@, allocation.offset, allocation.size),
           !.live = @ \ {allocation},
           !.last = [op |-> "free", memory |-> allocation.memory, offset |-> allocation.offset,
                     size |-> allocation.size, alignment |-> 1]]

(***************************************************************************)
(* TaskGraph                                                               *)
(***************************************************************************)
\* enum TaskAccess
TaskAccess == {"Read", "Write", "ReadWrite"}

\* the resources the tasks of the model name: TaskBufferId(0), TaskBufferId(1)
\* and TaskImageId(0)
TaskResources ==
    {[kind |-> "Buffer", id |-> 0], [kind |-> "Buffer", id |-> 1], [kind |-> "Image", id |-> 0]}

\* enum TaskResource: one declared access of a task
TaskResource ==
    {[kind |-> r.kind, id |-> r.id, access |-> a] : r \in TaskResources, a \in TaskAccess}

\* Task::resources, a Vec<TaskResource> of at most n accesses
TaskInputs(n) == UNION {[1 .. k -> TaskResource] : k \in 0 .. n}

\* the accesses a task declares to the one buffer TaskBufferId(0)
BufferAccesses == {r \in TaskResource : r.kind = "Buffer" /\ r.id = 0}

\* Task::resources of at most n accesses, all to that buffer
BufferTaskInputs(n) == UNION {[1 .. k -> BufferAccesses] : k \in 0 .. n}

\* the accesses declared in the task list so far
Declared == LET RECURSIVE Sum(_)
                Sum(k) == IF k = 0 THEN 0 ELSE Len(tasks[k]) + Sum(k - 1)
            IN  Sum(Len(tasks))

\* TaskResource::same_resource: the variants are compared, the ids are not
same_resource(a, b) == a.kind = b.kind

\* TaskResource::get_access
get_access(r) == r.access

\* check_dependencies that takes two accesses for dependent only when both write
check_dependencies_writers_only(a, b) ==
    \E x \in DOMAIN a : \E y \in DOMAIN b :
        /\ same_resource(a[x], b[y])
        /\ get_access(a[x]) /= "Read" /\ get_access(b[y]) /= "Read"

\* TaskGraph::check_dependencies
check_dependencies(a, b) ==
    \E x \in DOMAIN a : \E y \in DOMAIN b :
        /\ same_resource(a[x], b[y])
        /\ ~(get_access(a[x]) = "Read" /\ get_access(b[y]) = "Read")

\* the two loops with for j in 0..=i: a task is compared with itself too
pairwise_scan_inclusive(ts) ==
    [i1 \in 1 .. Len(ts) |->
        LET RECURSIVE Scan(_)
            Scan(j1) ==
                IF j1 > i1 THEN <<>>
                ELSE (IF check_dependencies(ts[j1], ts[i1]) THEN <<j1 - 1>> ELSE <<>>)
                     \o Scan(j1 + 1)
        IN  Scan(1)]

\* create_adjacency_list, the two loops: edges[i] lists, in increasing order,
\* the earlier tasks j that task i depends on (vertex i is edges[i + 1])
pairwise_scan(ts) ==
    [i1 \in 1 .. Len(ts) |->
        LET RECURSIVE Scan(_)
            Scan(j1) ==
                IF j1 >= i1 THEN <<>>
                ELSE (IF check_dependencies(ts[j1], ts[i1]) THEN <<j1 - 1>> ELSE <<>>)
                     \o Scan(j1 + 1)
        IN  Scan(1)]

\* transitive_reduction, the while loop: depth-first search for v
RECURSIVE is_reachable_loop(_, _, _, _)
is_reachable_loop(adj, stack, visited, v) ==
    IF stack = <<>> THEN FALSE
    ELSE LET node == stack[Len(stack)]
             rest == SubSeq(stack, 1, Len(stack) - 1)
         IN  IF node = v THEN TRUE
             ELSE IF node \in visited THEN is_reachable_loop(adj, rest, visited, v)
             ELSE is_reachable_loop(adj, rest \o adj[node + 1], visited \cup {node}, v)

\* the search done on the list that still holds the edge u -> v
reduce_edge_not_removed(adj, u, v) ==
    LET is_reachable == is_reachable_loop(adj, <<u>>, {}, v)
    IN  IF ~is_reachable
        THEN adj
        ELSE [adj EXCEPT ![u + 1] = SelectSeq(@, LAMBDA x : x /= v)]

\* transitive_reduction, the body of the loop over the neighbors of u
reduce_edge(adj, u, v) ==
    LET removed == [adj EXCEPT ![u + 1] = SelectSeq(@, LAMBDA x : x /= v)]
        is_reachable == is_reachable_loop(removed, <<u>>, {}, v)
    IN  IF ~is_reachable
        THEN [removed EXCEPT ![u + 1] = Append(@, v)]
        ELSE removed

\* transitive_reduction, for &v in &neighbors
RECURSIVE reduce_neighbors(_, _, _, _)
reduce_neighbors(adj, u, neighbors, k) ==
    IF k > Len(neighbors) THEN adj
    ELSE reduce_neighbors(reduce_edge(adj, u, neighbors[k]), u, neighbors, k + 1)

\* the loop over u that leaves the first neighbor of every u unexamined
RECURSIVE reduce_from_skip_first(_, _)
reduce_from_skip_first(adj, u) ==
    IF u >= Len(adj) THEN adj
    ELSE reduce_from_skip_first(reduce_neighbors(adj, u, adj[u + 1], 2), u + 1)

\* transitive_reduction, for u in 0..n
RECURSIVE reduce_from(_, _)
reduce_from(adj, u) ==
    IF u >= Len(adj) THEN adj
    ELSE reduce_from(reduce_neighbors(adj, u, adj[u + 1], 1), u + 1)

\* TaskGraph::transitive_reduction
transitive_reduction(adj) == reduce_from(adj, 0)

\* create_adjacency_list that returns the edges of the scan as they are
create_adjacency_list_unreduced(ts) == pairwise_scan(ts)

\* TaskGraph::create_adjacency_list
create_adjacency_list(ts) == transitive_reduction(pairwise_scan(ts))

\* the first loop counting for u, not for v: indegrees[u] += 1
indegrees_of_source(adj) == [u1 \in 1 .. Len(adj) |-> Len(adj[u1])]

\* toplogical_sort, the first loop: indegrees[v] counts the lists that hold v
indegrees_of(adj) ==
    [v1 \in 1 .. Len(adj) |->
        LET RECURSIVE Count(_)
            Count(u1) ==
                IF u1 = 0 THEN 0
                ELSE Len(SelectSeq(adj[u1], LAMBDA x : x = v1 - 1)) + Count(u1 - 1)
        IN  Count(Len(adj))]

\* toplogical_sort, the second loop: the vertices of indegree 0, in order
RECURSIVE zero_indegree(_, _)
zero_indegree(indegrees, i) ==
    IF i >= Len(indegrees) THEN <<>>
    ELSE (IF indegrees[i + 1] = 0 THEN <<i>> ELSE <<>>) \o zero_indegree(indegrees, i + 1)

\* the successors pushed whether or not their indegree has reached 0
RECURSIVE release_always(_, _, _, _)
release_always(succ, k, indegrees, q) ==
    IF k > Len(succ) THEN [indegrees |-> indegrees, q |-> q]
    ELSE LET v == succ[k]
             dec == [indegrees EXCEPT ![v + 1] = @ - 1]
         IN  release_always(succ, k + 1, dec, Append(q, v))

\* toplogical_sort, for &v in &adj_list[u]
RECURSIVE release(_, _, _, _)
release(succ, k, indegrees, q) ==
    IF k > Len(succ) THEN [indegrees |-> indegrees, q |-> q]
    ELSE LET v == succ[k]
             dec == [indegrees EXCEPT ![v + 1] = @ - 1]
         IN  release(succ, k + 1, dec, IF dec[v + 1] = 0 THEN Append(q, v) ELSE q)

\* toplogical_sort, for _ in 0..size
RECURSIVE take_batch(_, _, _, _, _)
take_batch(adj, size, indegrees, q, batch) ==
    IF size = 0 THEN [indegrees |-> indegrees, q |-> q, batch |-> batch]
    ELSE LET u == Head(q)
             r == release(adj[u + 1], 1, indegrees, Tail(q))
         IN  take_batch(adj, size - 1, r.indegrees, r.q, Append(batch, u))

\* the while loop taking one vertex, not the whole frontier, per batch
RECURSIVE kahn_unbatched(_, _, _, _)
kahn_unbatched(adj, indegrees, q, bs) ==
    IF q = <<>> THEN bs
    ELSE LET r == take_batch(adj, 1, indegrees, q, <<>>)
         IN  kahn_unbatched(adj, r.indegrees, r.q, Append(bs, r.batch))

\* toplogical_sort, while !q.is_empty()
RECURSIVE kahn(_, _, _, _)
kahn(adj, indegrees, q, bs) ==
    IF q = <<>> THEN bs
    ELSE LET r == take_batch(adj, Len(q), indegrees, q, <<>>)
         IN  kahn(adj, r.indegrees, r.q, Append(bs, r.batch))

\* batches.reverse()
reverse(s) == [k \in 1 .. Len(s) |-> s[Len(s) + 1 - k]]

\* toplogical_sort without batches.reverse()
toplogical_sort_not_reversed(adj) ==
    LET indegrees == indegrees_of(adj)
    IN  kahn(adj, indegrees, zero_indegree(indegrees, 0), <<>>)

\* toplogical_sort done from the tasks without dependencies: the counters and
\* the successors are taken on the edges turned round, and nothing is reversed
toplogical_sort_from_sources(adj) ==
    LET dependents == [j1 \in 1 .. Len(adj) |->
                          LET RECURSIVE Scan(_)
                              Scan(i1) ==
                                  IF i1 > Len(adj) THEN <<>>
                                  ELSE (IF \E k \in DOMAIN adj[i1] : adj[i1][k] = j1 - 1
                                        THEN <<i1 - 1>> ELSE <<>>) \o Scan(i1 + 1)
                          IN  Scan(1)]
        indegrees == indegrees_of(dependents)
    IN  kahn(dependents, indegrees, zero_indegree(indegrees, 0), <<>>)

\* TaskGraph::toplogical_sort
toplogical_sort(adj) ==
    LET indegrees == indegrees_of(adj)
    IN  reverse(kahn(adj, indegrees, zero_indegree(indegrees, 0), <<>>))

\* no compile is running
NotBuilding ==
    [phase |-> "idle", adj |-> <<>>, u |-> 0, neighbors |-> <<>>, k |-> 1, v |-> 0,
     stack |-> <<>>, visited |-> {}, indegrees |-> <<>>, q |-> <<>>, size |-> 0,
     batch |-> <<>>, bs |-> <<>>]

\* TaskGraph::new
GraphNew ==
    /\ tasks = <<>>
    /\ compiled = FALSE
    /\ edges = <<>>
    /\ adj_list = <<>>
    /\ batches = <<>>
    /\ build = NotBuilding

\* TaskGraph::add_task
add_task(task) ==
    /\ ~compiled
    /\ Len(tasks) < MaxTasks
    /\ tasks' = Append(tasks, task)
    /\ UNCHANGED <<compiled, edges, adj_list, batches, build>>
    /\ UNCHANGED <<poolVars, histVars, last, lockVars, sideVars>>

\* TaskGraph::compile
compile ==
    /\ ~compiled
    /\ compiled' = TRUE
    /\ edges' = pairwise_scan(tasks)
    /\ adj_list' = create_adjacency_list(tasks)
    /\ batches' = toplogical_sort(create_adjacency_list(tasks))
    /\ UNCHANGED <<tasks, build>>
    /\ UNCHANGED <<poolVars, histVars, last, lockVars, sideVars>>

\* compile is called: self is moved into it, and create_adjacency_list runs
\* its two loops; transitive_reduction is at its first vertex
compile_begin ==
    /\ ~compiled
    /\ compiled' = TRUE
    /\ edges' = pairwise_scan(tasks)
    /\ build' = [NotBuilding EXCEPT
                    !.phase = "reduce",
                    !.adj = pairwise_scan(tasks),
                    !.neighbors = IF tasks = <<>> THEN <<>> ELSE pairwise_scan(tasks)[1]]
    /\ UNCHANGED <<tasks, adj_list, batches>>
    /\ UNCHANGED <<poolVars, histVars, last, lockVars, sideVars>>

\* transitive_reduction, for u in 0..n and for &v in &neighbors: the next
\* edge u -> v is taken out of adj[u] and the search for v is set up; after
\* the last vertex create_adjacency_list returns and toplogical_sort runs
\* its first two loops
reduction_for ==
    /\ build.phase = "reduce"
    /\ IF build.u >= Len(build.adj)
       THEN /\ adj_list' = build.adj
            /\ build' = [build EXCEPT
                            !.phase = "sort",
                            !.indegrees = indegrees_of(build.adj),
                            !.q = zero_indegree(indegrees_of(build.adj), 0)]
       ELSE /\ UNCHANGED adj_list
            /\ IF build.k > Len(build.neighbors)
               THEN build' = [build EXCEPT
                                !.u = @ + 1,
                                !.k = 1,
                                !.neighbors = IF build.u + 1 < Len(build.adj)
                                              THEN build.adj[build.u + 2] ELSE <<>>]
               ELSE build' = [build EXCEPT
                                !.phase = "search",
                                !.v = build.neighbors[build.k],
                                !.adj[build.u + 1] =
                                    SelectSeq(@, LAMBDA x : x /= build.neighbors[build.k]),
                                !.visited = {},
                                !.stack = <<build.u>>]
    /\ UNCHANGED <<tasks, compiled, edges, batches>>
    /\ UNCHANGED <<poolVars, histVars, last, lockVars, sideVars>>

\* transitive_reduction, one turn of while let Some(node) = stack.pop();
\* when the loop ends, if !is_reachable { adj[u].push(v) }
reduction_while ==
    /\ build.phase = "search"
    /\ IF build.stack = <<>>
       THEN build' = [build EXCEPT
                        !.phase = "reduce",
                        !.adj[build.u + 1] = Append(@, build.v),
                        !.k = @ + 1]
       ELSE LET node == build.stack[Len(build.stack)]
                rest == SubSeq(build.stack, 1, Len(build.stack) - 1)
            IN  IF node = build.v
                THEN build' = [build EXCEPT
                                 !.phase = "reduce", !.k = @ + 1,
                                 !.stack = <<>>, !.visited = {}]
                ELSE IF node \in build.visited
                THEN build' = [build EXCEPT !.stack = rest]
                ELSE build' = [build EXCEPT
                                 !.stack = rest \o build.adj[node + 1],
                                 !.visited = @ \cup {node}]
    /\ UNCHANGED <<tasks, compiled, edges, adj_list, batches>>
    /\ UNCHANGED <<poolVars, histVars, last, lockVars, sideVars>>

\* toplogical_sort, the test of while !q.is_empty(): a new batch of q.len()
\* vertices is begun, or batches.reverse() and compile returns
sort_while ==
    /\ build.phase = "sort"
    /\ IF build.q = <<>>
       THEN /\ batches' = reverse(build.bs)
            /\ build' = [build EXCEPT !.phase = "done"]
       ELSE /\ UNCHANGED batches
            /\ build' = [build EXCEPT
                            !.phase = "batch", !.batch = <<>>, !.size = Len(build.q)]
    /\ UNCHANGED <<tasks, compiled, edges, adj_list>>
    /\ UNCHANGED <<poolVars, histVars, last, lockVars, sideVars>>

\* toplogical_sort, one turn of for _ in 0..size: q.pop_front().unwrap()
\* panics on an empty queue; after the last turn batches.push(batch)
sort_for ==
    /\ build.phase = "batch"
    /\ IF build.size = 0
       THEN build' = [build EXCEPT !.phase = "sort", !.bs = Append(@, build.batch)]
       ELSE IF build.q = <<>>
       THEN build' = [build EXCEPT !.phase = "panicked"]
       ELSE LET u == Head(build.q)
                r == release(build.adj[u + 1], 1, build.indegrees, Tail(build.q))
            IN  build' = [build EXCEPT
                            !.size = @ - 1,
                            !.batch = Append(@, u),
                            !.indegrees = r.indegrees,
                            !.q = r.q]
    /\ UNCHANGED <<tasks, compiled, edges, adj_list, batches>>
    /\ UNCHANGED <<poolVars, histVars, last, lockVars, sideVars>>

(***************************************************************************)
(* Specifications                                                          *)
(***************************************************************************)
Init ==
    /\ PoolNew /\ GraphNew /\ DeviceNew /\ RecorderNew /\ LocksNew /\ SwapchainNew
    /\ AllocatorNew

Next ==
    \/ add /\ UNCHANGED <<lockVars, sideVars>>
    \/ \E id \in Handles : delete(id) /\ UNCHANGED <<lockVars, sideVars>>
    \/ \E id \in Handles : get_ref(id) /\ UNCHANGED <<lockVars, sideVars>>

\* one resource pool, from its construction
Spec == Init /\ [][Next]_vars

\* The pool after add(), add(), MASK rounds of delete(h); h = add() on the
\* handle of the first slot, and a last delete(h): slot (0, 0) is empty after
\* its occupation of version MASK, slot (0, 1) is in its first occupation.
\* Resource 1 is the one in slot (0, 1), resource 2 the one deleted last.
PoolWorn ==
    /\ data = <<[EmptyPage EXCEPT ![0] = [res |-> None, version |-> MASK],
                                  ![1] = [res |-> 1, version |-> 0]]>>
    /\ free_indices = <<encode(0, 0, MASK)>>
    /\ curr_index = 2
    /\ curr_page = 0
    /\ last = [op |-> "delete", id |-> encode(0, 0, MASK), ok |-> TRUE, res |-> 2]
    /\ handle_of = <<encode(0, 1, 0), encode(0, 0, MASK)>>
    /\ alive = {1}
    /\ stale = {encode(0, 0, MASK)}
    /\ nadds = 0
    /\ ndeletes = 0

WornInit ==
    /\ PoolWorn /\ GraphNew /\ DeviceNew /\ RecorderNew /\ LocksNew /\ SwapchainNew
    /\ AllocatorNew

\* one resource pool, from the state in which a slot has reached version MASK
WornSpec == WornInit /\ [][Next]_vars

GraphNext ==
    \/ \E task \in TaskInputs(MaxDecls - Declared) : add_task(task)
    \/ compile

\* one task graph, from its construction
GraphSpec == Init /\ [][GraphNext]_vars

BufferNext ==
    \/ \E task \in BufferTaskInputs(MaxBufferDecls - Declared) : add_task(task)
    \/ compile

\* one task graph whose tasks all name the same buffer
BufferSpec == Init /\ [][BufferNext]_vars

\* the steps of a running compile
BuildStep == reduction_for \/ reduction_while \/ sort_while \/ sort_for

BuildNext ==
    \/ \E task \in BufferTaskInputs(MaxBufferDecls - Declared) : add_task(task)
    \/ compile_begin
    \/ reduction_for
    \/ reduction_while
    \/ sort_while
    \/ sort_for

\* one task graph on one buffer, its compile run step by step; a compile
\* that has been called runs on until it returns or panics
BuildSpec == Init /\ [][BuildNext]_vars /\ WF_vars(BuildStep)

\* add, and delete on handles that are live when they are passed
LiveNext ==
    \/ add /\ UNCHANGED <<lockVars, sideVars>>
    \/ \E id \in Handles :
         /\ delete_value(id).ok
         /\ ndeletes < MaxFrees
         /\ delete_live(id, decode_as_usize(id), delete_value(id).res)
         /\ UNCHANGED <<graphVars, lockVars, sideVars>>

LiveSpec == Init /\ [][LiveNext]_vars

PoolLocksNext ==
    /\ \E t \in Threads :
         \/ \E op \in Operations : begin(t, op)
         \/ acquire(t)
         \/ drop_guard(t)
         \/ unwind(t)
    /\ UNCHANGED <<poolVars, histVars, last, graphVars, lockVars, recorder, swapchain, allocator>>

\* the threads of one device in calls that take the locks of its pools
PoolLocksSpec == Init /\ [][PoolLocksNext]_vars

SwapchainNext ==
    /\ \/ \E index \in 0 .. MaxImages - 1 : acquire_image(index)
       \/ acquire_image_fails
       \/ \E ok \in BOOLEAN : present(ok)
    /\ UNCHANGED <<poolVars, histVars, last, graphVars, lockVars, recorder, heldVars, allocator>>

\* one swapchain of any image count, its acquire_image and present calls
\* one after the other
SwapchainInit ==
    /\ PoolNew /\ GraphNew /\ DeviceNew /\ RecorderNew /\ LocksNew /\ AllocatorNew
    /\ \E image_count \in 1 .. MaxImages : create_swapchain(image_count)

SwapchainSpec == SwapchainInit /\ [][SwapchainNext]_vars

\* the sizes and the alignments (powers of two) of the allocate calls
Sizes == 1 .. BlockSize
Alignments == {1, 2, 4}

AllocatorNext ==
    /\ \/ \E size \in Sizes : \E alignment \in Alignments : allocate(size, alignment)
       \/ \E allocation \in allocator.live : free(allocation)
    /\ UNCHANGED <<poolVars, histVars, last, graphVars, lockVars, recorder, heldVars, swapchain>>

\* one FreeListAllocator, from its construction
AllocatorSpec == Init /\ [][AllocatorNext]_vars

RecorderNext ==
    \/ nadds < MaxCreates /\ add /\ UNCHANGED <<lockVars, sideVars>>
    \/ \E id \in Handles : delete(id) /\ UNCHANGED <<lockVars, sideVars>>
    \/ \E id \in Handles : check_and_remeber_buffer_id(id)

\* one CommandRecorder and the buffers of its device
RecorderSpec == Init /\ [][RecorderNext]_vars

LockNext ==
    \E t \in Threads :
        \/ create_buffer_write(t)
        \/ create_buffer_add(t)
        \/ \E id \in Handles : destroy_buffer_write(t, id)
        \/ destroy_buffer_delete(t)
        \/ \E id \in Handles : write_data_to_buffer_read(t, id)
        \/ write_data_to_buffer_get_ref(t)

\* the threads of one device on its buffer pool
LockSpec == Init /\ [][LockNext]_vars

(***************************************************************************)
(* Properties of the resource pool                                         *)
(***************************************************************************)
\* the slot a handle names
SlotOf(id) == <<decode_as_usize(id).page, decode_as_usize(id).index>>

\* C1: a handle on which a delete has succeeded is refused by get_ref and by
\* delete in every later state, while its slot is empty and after the slot
\* has been reused: it never resolves to the newer resource in the slot.
C1_StaleHandleRejected ==
    \A h \in stale : ~get_ref_value(h).ok /\ ~delete_value(h).ok

\* C1, its case: get_ref has just refused a deleted handle whose slot holds a
\* newer resource.
C1_Witness ==
    \E h \in stale :
        /\ last = [op |-> "get_ref", id |-> h, ok |-> FALSE, res |-> None]
        /\ SlotAt(SlotOf(h)[1], SlotOf(h)[2]).res /= None

\* C2: the handles of the resources that are live are pairwise distinct.
C2_LiveHandlesDistinct ==
    \A r1 \in alive : \A r2 \in alive : r1 /= r2 => handle_of[r1] /= handle_of[r2]

\* C8: an add with a free handle f stores the resource in f's slot and returns
\* the handle (f's page, f's slot, f's version + 1); an add with an empty free
\* list stores the resource in a slot no handle has named and returns a
\* handle of version 0, with a new page exactly when the cursor has reached
\* PAGE_SIZE; add does not fail.
C8_AddPlacement ==
    [][nadds' = nadds + 1 =>
        LET h == decode_as_usize(last'.id) IN
        /\ last'.op = "add" /\ last'.ok
        /\ h.page < Len(data')
        /\ data'[h.page + 1][h.index].res = last'.res
        /\ IF free_indices /= <<>>
           THEN LET f == decode_as_usize(free_indices[Len(free_indices)]) IN
                /\ h = [page |-> f.page, index |-> f.index, version |-> f.version + 1]
                /\ free_indices' = SubSeq(free_indices, 1, Len(free_indices) - 1)
                /\ Len(data') = Len(data)
           ELSE /\ h.version = 0
                /\ \A id \in Handles : SlotOf(id) /= <<h.page, h.index>>
                /\ Len(data') = (IF curr_index = PAGE_SIZE THEN Len(data) + 1 ELSE Len(data))
    ]_vars

\* C9: a delete on the handle of a live resource returns that resource,
\* leaves the slot empty with its version unchanged, appends the handle to
\* the free list and changes no other slot.
C9_DeleteOnLive ==
    [][\A r \in alive :
        (last'.op = "delete" /\ last'.id = handle_of[r] /\ last' /= last) =>
            LET d == decode_as_usize(handle_of[r]) IN
            /\ last'.ok /\ last'.res = r
            /\ data' = [data EXCEPT ![d.page + 1][d.index] =
                            [res |-> None, version |-> SlotAt(d.page, d.index).version]]
            /\ free_indices' = Append(free_indices, handle_of[r])
    ]_vars

\* C10: get_ref on the handle of a live resource returns that resource, a
\* get_ref call changes nothing of the pool, and the pool changes only in
\* add and delete.
C10_GetRefOnLive ==
    /\ [](\A r \in alive : get_ref_value(handle_of[r]) = Ok(r))
    /\ [][last'.op = "get_ref" => UNCHANGED poolVars]_vars
    /\ [][poolVars' /= poolVars => last'.op \in {"add", "delete"}]_vars

\* C11: the handle of a live resource resolves to that resource after every
\* call that is not a delete on that handle itself: an add, with or without
\* a new page, a get_ref, a delete on any other handle.
C11_GrowthKeepsHandles ==
    [][\A r \in alive :
        ~(last'.op = "delete" /\ last'.id = handle_of[r] /\ last' /= last) =>
            get_ref_value(handle_of[r])' = Ok(r)
    ]_vars

\* C20: a delete that fails, on a handle whose version is not that of the
\* slot or whose slot is empty, leaves every slot, every version and the
\* free list as they were, and the live resources stay retrievable.
C20_FailedDeleteNoChange ==
    [][(last'.op = "delete" /\ ~last'.ok) =>
        /\ UNCHANGED poolVars
        /\ \A r \in alive : get_ref_value(handle_of[r])' = Ok(r)
    ]_vars

\* the slots of the pages allocated so far
Slots == (0 .. Len(data) - 1) \X (0 .. PAGE_SIZE - 1)

\* the add calls that have stored their resource in slot s
Occupations(s) == Cardinality({k \in DOMAIN handle_of : SlotOf(handle_of[k]) = s})

\* C21: the version stored in a slot is the number of reuses of the slot:
\* 0 up to and during its first occupation, unchanged by delete, one more at
\* each add that reuses the slot, and never less than before.
C21_VersionCounting ==
    /\ [](LET stored == {<<k, SlotOf(handle_of[k])>> : k \in DOMAIN handle_of}
           IN  \A s \in Slots :
                   LET n == Cardinality({p \in stored : p[2] = s})
                   IN  SlotAt(s[1], s[2]).version = (IF n = 0 THEN 0 ELSE n - 1))
    /\ [][data' /= data => \A s \in Slots :
            LET v == SlotAt(s[1], s[2]).version
                w == data'[s[1] + 1][s[2]].version
            IN  /\ w >= v
                /\ last'.op = "delete" => w = v
                /\ w /= v =>
                      /\ w = v + 1
                      /\ last'.op = "add"
                      /\ free_indices /= <<>>
                      /\ SlotOf(free_indices[Len(free_indices)]) = s
                      /\ SlotAt(s[1], s[2]).res = None
                      /\ data'[s[1] + 1][s[2]].res /= None
       ]_vars

\* C21, its case: a slot is in its second occupation, at version 1, and a
\* fresh slot is in its first, at version 0.
C21_Witness ==
    \E s \in Slots : \E t \in Slots :
        /\ SlotAt(s[1], s[2]).res /= None /\ SlotAt(s[1], s[2]).version = 1
        /\ SlotAt(t[1], t[2]).res /= None /\ SlotAt(t[1], t[2]).version = 0
        /\ Occupations(s) = 2

\* C24: the handle an add has just returned decodes to the page, the slot
\* and the version under which its resource is stored, get_ref on it gives
\* that resource, and no other slot holds the resource; also when the slot
\* has been reused 2^16 times or more.
C24_EncodingFaithful ==
    last.op = "add" =>
        LET d == decode_as_usize(last.id) IN
        /\ InBounds(d)
        /\ SlotAt(d.page, d.index) = [res |-> last.res, version |-> d.version]
        /\ get_ref_value(last.id) = Ok(last.res)
        /\ \A s \in Slots : SlotAt(s[1], s[2]).res = last.res => s = <<d.page, d.index>>

\* the slots before the allocation cursor (curr_page, curr_index)
HandedOut(s) == s[1] < curr_page \/ (s[1] = curr_page /\ s[2] < curr_index)

\* the free-list entries that name slot s
FreeEntries(s) == {k \in DOMAIN free_indices : SlotOf(free_indices[k]) = s}

\* C26: after add and successful delete calls, every slot handed out is
\* either occupied or named by exactly one free-list entry (never both, never
\* twice), every free-list entry carries the version stored in its slot, and
\* every slot at or beyond the cursor is empty, at version 0, and not in the
\* free list.
C26_PoolBookkeeping ==
    /\ \A s \in Slots :
         LET slot == SlotAt(s[1], s[2]) IN
         IF HandedOut(s)
         THEN \/ slot.res /= None /\ FreeEntries(s) = {}
              \/ slot.res = None /\ Cardinality(FreeEntries(s)) = 1
         ELSE slot.res = None /\ slot.version = 0 /\ FreeEntries(s) = {}
    /\ \A k \in DOMAIN free_indices :
         LET d == decode_as_usize(free_indices[k]) IN
         InBounds(d) /\ SlotAt(d.page, d.index).version = d.version

\* a slot that has been reused is free again, next to occupied slots and to
\* slots the cursor has not reached
C26_Witness ==
    /\ \E k \in DOMAIN free_indices : decode_as_usize(free_indices[k]).version > 0
    /\ \E s \in Slots : HandedOut(s) /\ SlotAt(s[1], s[2]).res /= None
    /\ \E s \in Slots : ~HandedOut(s)
    /\ last.op = "delete"

\* C25: the vk::Buffer a command of the recorder uses for a BufferID is the
\* one get_ref returns for the id at that moment, and the command fails when
\* get_ref fails, also when the recorder has resolved the id before.
C25_ResolvedAtRecordTime ==
    [][recorder'.n = recorder.n + 1 =>
        [ok |-> recorder'.ok, res |-> recorder'.buffer] = get_ref_value(recorder'.id)
    ]_vars

\* the threads inside a device call, its guard in hand
InCall(at) == {t \in Threads : pc[t].at = at}

\* C12: a thread is in add or delete only with the write guard of the pool
\* and while no other thread is in any call on the pool; a thread is in
\* get_ref only with a read guard and while no write guard is out; get_ref
\* calls of several threads do overlap.
C12_ReaderWriterDiscipline ==
    LET writers == InCall("create_buffer") \cup InCall("destroy_buffer")
        readers == InCall("write_data_to_buffer")
    IN  /\ writers /= {} =>
              /\ pool_lock.writer
              /\ Cardinality(writers) = 1 /\ readers = {}
        /\ pool_lock.writer => writers /= {}
        /\ pool_lock.readers = Cardinality(readers)

\* C12, its case: two threads are in get_ref at once, each with a read guard.
C12_Witness ==
    /\ Cardinality(InCall("write_data_to_buffer")) = 2
    /\ pool_lock.readers = 2

(***************************************************************************)
(* Properties of the task graph                                            *)
(***************************************************************************)
\* the vertices: the indices of the tasks
Vertices == 0 .. Len(tasks) - 1

\* the batches of the returned list that hold task t
BatchesOf(t) == {b \in DOMAIN batches : \E k \in DOMAIN batches[b] : batches[b][k] = t}

\* i depends on j in adj: adj[i] lists j
DependsOn(adj, i, j) == \E k \in DOMAIN adj[i + 1] : adj[i + 1][k] = j

\* the dependency edges of adj, as pairs <<later task, earlier task>>
EdgeSet(adj) == {<<i, j>> \in Vertices \X Vertices : DependsOn(adj, i, j)}

\* the pairs joined by a path of one or more edges
RECURSIVE Paths(_, _)
Paths(E, P) ==
    LET next == P \cup {<<p[1], e[2]>> : <<p, e>> \in {pe \in P \X E : pe[1][2] = pe[2][1]}}
    IN  IF next = P THEN P ELSE Paths(E, next)

Reachability(adj) == Paths(EdgeSet(adj), EdgeSet(adj))

\* two declared accesses name one resource, and one of them writes
Conflict(x, y) ==
    /\ x.kind = y.kind /\ x.id = y.id
    /\ ~(x.access = "Read" /\ y.access = "Read")

\* a hazard between two tasks
Hazard(a, b) == \E x \in DOMAIN a : \E y \in DOMAIN b : Conflict(a[x], b[y])

\* C3: for every edge j -> i of the reduced graph (i depends on the earlier
\* task j) the batch of i comes strictly after the batch of j in the list.
C3_BatchValidity ==
    compiled =>
        \A i \in Vertices : \A j \in Vertices :
            DependsOn(adj_list, i, j) =>
                /\ BatchesOf(i) /= {} /\ BatchesOf(j) /= {}
                /\ \A bi \in BatchesOf(i) : \A bj \in BatchesOf(j) : bj < bi

\* C3, its case: a chain of three tasks was compiled into three batches.
C3_Witness ==
    /\ compiled /\ Len(batches) = 3
    /\ DependsOn(adj_list, 1, 0) /\ DependsOn(adj_list, 2, 1)

\* C4: every task index is in exactly one batch, at one place; the batches
\* hold nothing else; the empty task list gives no batch.
C4_BatchPartition ==
    compiled =>
        /\ \A t \in Vertices :
              Cardinality({<<b, k>> \in (DOMAIN batches) \X (1 .. Len(tasks)) :
                              k \in DOMAIN batches[b] /\ batches[b][k] = t}) = 1
        /\ \A b \in DOMAIN batches :
              /\ Len(batches[b]) <= Len(tasks)
              /\ \A k \in DOMAIN batches[b] : batches[b][k] \in Vertices
        /\ (tasks = <<>> => batches = <<>>)

\* C4, its case: three tasks were compiled into two batches, one of two tasks.
C4_Witness ==
    /\ compiled /\ Len(tasks) = 3 /\ Len(batches) = 2
    /\ \E b \in DOMAIN batches : Len(batches[b]) = 2

\* C5: the pairwise scan records the dependency of i on an earlier j exactly
\* when the two tasks have a hazard: accesses to one resource, not both Read.
C5_HazardRule ==
    compiled =>
        \A i \in Vertices : \A j \in Vertices :
            j < i => (DependsOn(edges, i, j) <=> Hazard(tasks[j + 1], tasks[i + 1]))

\* C6: two tasks with a hazard are never in one batch, and the batch of the
\* earlier declared one comes first: whatever the interleaving inside a
\* batch, batches run in list order run the two in declaration order.
C6_IntraBatchIndependence ==
    compiled =>
        \A i \in Vertices : \A j \in Vertices :
            (j < i /\ Hazard(tasks[j + 1], tasks[i + 1])) =>
                /\ BatchesOf(i) /= {} /\ BatchesOf(j) /= {}
                /\ \A bi \in BatchesOf(i) : \A bj \in BatchesOf(j) : bj < bi

\* C6, its case: a batch of two tasks, both with a hazard against a third.
C6_Witness ==
    /\ compiled
    /\ \E b \in DOMAIN batches : Len(batches[b]) = 2
    /\ Hazard(tasks[1], tasks[2]) /\ Hazard(tasks[1], tasks[3])
    /\ ~Hazard(tasks[2], tasks[3])

\* C7: the reduction keeps a subset of the edges of the pairwise scan, and
\* the same reachability.
C7_ReductionCorrect ==
    compiled =>
        /\ EdgeSet(adj_list) \subseteq EdgeSet(edges)
        /\ Reachability(adj_list) = Reachability(edges)

\* C7, its case: the reduction has removed an edge.
C7_Witness ==
    /\ compiled
    /\ EdgeSet(adj_list) /= EdgeSet(edges)

\* the two tasks name one resource, and every access of either to it is Read
ReadShared(a, b) ==
    \E x \in DOMAIN a : \E y \in DOMAIN b :
        /\ a[x].kind = b[y].kind /\ a[x].id = b[y].id
        /\ \A z \in DOMAIN a : (a[z].kind = a[x].kind /\ a[z].id = a[x].id) => a[z].access = "Read"
        /\ \A z \in DOMAIN b : (b[z].kind = a[x].kind /\ b[z].id = a[x].id) => b[z].access = "Read"

\* C13: two tasks that both only read a resource they share, and that have
\* no hazard on any other resource, get no dependency edge between them
\* from the pairwise scan, so that nothing keeps them out of one batch.
C13_ReadReadIndependence ==
    compiled =>
        \A i \in Vertices : \A j \in Vertices :
            (j < i /\ ReadShared(tasks[j + 1], tasks[i + 1])
                   /\ ~Hazard(tasks[j + 1], tasks[i + 1])) =>
                ~DependsOn(edges, i, j)

\* no two tasks of the list name a common resource
DisjointResources ==
    \A i \in DOMAIN tasks : \A j \in DOMAIN tasks :
        i /= j => \A x \in DOMAIN tasks[i] : \A y \in DOMAIN tasks[j] :
                     ~(tasks[i][x].kind = tasks[j][y].kind /\ tasks[i][x].id = tasks[j][y].id)

\* C14: for a task list, not empty, in which no two tasks name a common
\* resource, the pairwise scan records no edge and the batch list is one
\* batch that holds every task.
C14_DisjointOneBatch ==
    (compiled /\ tasks /= <<>> /\ DisjointResources) =>
        /\ \A i \in DOMAIN edges : edges[i] = <<>>
        /\ Len(batches) = 1
        /\ {batches[1][k] : k \in DOMAIN batches[1]} = Vertices

\* the list is one task that writes b, then one or more tasks that only read b
WriterThenReaders(b) ==
    /\ Len(tasks) >= 2
    /\ tasks[1] = <<[kind |-> b.kind, id |-> b.id, access |-> "Write"]>>
    /\ \A i \in 2 .. Len(tasks) :
          /\ tasks[i] /= <<>>
          /\ \A x \in DOMAIN tasks[i] :
                tasks[i][x] = [kind |-> b.kind, id |-> b.id, access |-> "Read"]

\* C15: for a writer of B followed by k tasks that only read B, the scan and
\* the reduction give exactly the dependencies of every reader on task 0,
\* and the batch list is [[0], [1, .., k]].
C15_WriterThenReaders ==
    compiled =>
        \A b \in TaskResources :
            WriterThenReaders(b) =>
                /\ edges = [i \in 1 .. Len(tasks) |-> IF i = 1 THEN <<>> ELSE <<0>>]
                /\ adj_list = edges
                /\ batches = <<<<0>>, [k \in 1 .. Len(tasks) - 1 |-> k]>>

\* C15, its case: [write(B)], [read(B)], [read(B)] was compiled.
C15_Witness ==
    /\ compiled /\ Len(tasks) = 3
    /\ WriterThenReaders([kind |-> "Buffer", id |-> 0])

\* one declared access to the buffer B
OnB(access) == [kind |-> "Buffer", id |-> 0, access |-> access]

\* the task list [write(B)], [write(B), read(B)], [read(B)]
ScenarioB ==
    tasks = <<<<OnB("Write")>>, <<OnB("Write"), OnB("Read")>>, <<OnB("Read")>>>>

\* C16: for [write(B)], [write(B), read(B)], [read(B)] the scan records the
\* dependencies of 1 on 0 and of 2 on 0 and 1; the reduction drops that of
\* 2 on 0 and keeps the two others; the batch list is [[0], [1], [2]].
C16_ChainRedundantEdge ==
    (compiled /\ ScenarioB) =>
        /\ edges = <<<<>>, <<0>>, <<0, 1>>>>
        /\ adj_list = <<<<>>, <<0>>, <<1>>>>
        /\ batches = <<<<0>>, <<1>>, <<2>>>>

\* C16, its case: the task list of the scenario was compiled.
C16_Witness == compiled /\ ScenarioB

\* a stepwise compile has returned
Built == build.phase = "done"

\* C18: compile does not panic; the counters of toplogical_sort never go
\* below zero; when the while loop of toplogical_sort ends every vertex is
\* in a batch; and a compile that has been called returns, so the loops of
\* the scan, of every search of the reduction and of the sort all end.
C18_BuilderTerminates ==
    /\ [](build.phase /= "panicked")
    /\ [](\A v \in DOMAIN build.indegrees : build.indegrees[v] >= 0)
    /\ [](Built => \A t \in Vertices : BatchesOf(t) /= {})
    /\ (build.phase /= "idle" ~> Built)

\* C18, its case: the compile of three tasks has returned after a search of
\* the reduction found its vertex and removed an edge.
C18_Witness ==
    /\ Built /\ Len(tasks) = 3
    /\ adj_list /= edges

\* the tasks of batch b, and those of the batches before or after it
InBatch(b) == {batches[b][k] : k \in DOMAIN batches[b]}
InBatchesBefore(b) == UNION {InBatch(c) : c \in 1 .. b - 1}
InBatchesAfter(b) == UNION {InBatch(c) : c \in b + 1 .. Len(batches)}

\* C19: batch b is exactly the set of the tasks not in an earlier batch all
\* of whose dependency predecessors are in earlier batches; so a task
\* without predecessors is in the first batch and every task is in the
\* earliest batch after all of its predecessors.
C19_FrontierLeveling ==
    compiled =>
        \A b \in DOMAIN batches :
            InBatch(b) = {t \in Vertices \ InBatchesBefore(b) :
                            \A j \in Vertices :
                                DependsOn(adj_list, t, j) => j \in InBatchesBefore(b)}

\* C19, the leveling the code does: the frontiers are taken from the other
\* end.  Batch b is exactly the set of the tasks not in a later batch all of
\* whose dependents are in later batches; so a task that no task depends on
\* is in the last batch and every task is in the latest batch before all of
\* its dependents.
C19_SinkFrontierLeveling ==
    compiled =>
        \A b \in DOMAIN batches :
            InBatch(b) = {t \in Vertices \ InBatchesAfter(b) :
                            \A i \in Vertices :
                                DependsOn(adj_list, i, t) => i \in InBatchesAfter(b)}

\* C19, its case: a task without dependency predecessors is in the last of
\* two or more batches, not in the first.
C19_Witness ==
    /\ compiled /\ Len(batches) >= 2
    /\ \E t \in InBatch(Len(batches)) : adj_list[t + 1] = <<>>

\* the edges of E that no path of two or more edges of E implies
NotImplied(E) ==
    LET P == Paths(E, E)
    IN  {e \in E : ~\E m \in Vertices : <<e[1], m>> \in P /\ <<m, e[2]>> \in P}

\* C22: no edge left by the reduction is implied by a path through the other
\* edges left, and the edges left are the one minimal set with the
\* reachability of the scan: the scanned edges that no longer path implies,
\* whatever the order of examination.
C22_ReductionMinimal ==
    compiled =>
        LET E == EdgeSet(adj_list) IN
        /\ \A e \in E : e \notin Paths(E \ {e}, E \ {e})
        /\ E = NotImplied(EdgeSet(edges))

\* C22, its case: the scan recorded the dependencies of task 2 on 0 and on 1
\* and of 1 on 0, and the reduction removed the one of 2 on 0.
C22_Witness ==
    /\ compiled /\ Len(tasks) = 3
    /\ EdgeSet(edges) = {<<1, 0>>, <<2, 0>>, <<2, 1>>}
    /\ EdgeSet(adj_list) = {<<1, 0>>, <<2, 1>>}

\* every entry of adj[i] is an earlier task, and none is listed twice
EarlierOnce(adj) ==
    \A i \in Vertices :
        /\ \A k \in DOMAIN adj[i + 1] : adj[i + 1][k] \in 0 .. i - 1
        /\ \A k \in DOMAIN adj[i + 1] : \A m \in DOMAIN adj[i + 1] :
              adj[i + 1][k] = adj[i + 1][m] => k = m

\* C23: every dependency recorded by the scan, and every one left by the
\* reduction, is of a task on a strictly earlier task, each pair of tasks
\* has at most one however many accesses conflict, and no task reaches
\* itself: the graph has no cycle.
C23_AcyclicByConstruction ==
    compiled =>
        /\ Len(edges) = Len(tasks) /\ Len(adj_list) = Len(tasks)
        /\ EarlierOnce(edges) /\ EarlierOnce(adj_list)
        /\ LET scanned == Reachability(edges)
               reduced == Reachability(adj_list)
           IN  \A t \in Vertices : <<t, t>> \notin scanned /\ <<t, t>> \notin reduced

\* C23, its case: two tasks with two conflicting pairs of accesses and the
\* one dependency between them.
C23_Witness ==
    /\ compiled /\ Len(tasks) = 2
    /\ Cardinality({xy \in (DOMAIN tasks[1]) \X (DOMAIN tasks[2]) :
                       Conflict(tasks[1][xy[1]], tasks[2][xy[2]])}) >= 2
    /\ edges = <<<<>>, <<0>>>>


\* the dependencies the hazards of the task list give: <<later task, earlier task>>
HazardEdges ==
    {<<i, j>> \in Vertices \X Vertices : j < i /\ Hazard(tasks[j + 1], tasks[i + 1])}

\* the number of tasks on the longest chain of E that ends in task v
RECURSIVE ChainTo(_, _)
ChainTo(E, v) ==
    LET before == {ChainTo(E, e[2]) : e \in {d \in E : d[1] = v}}
    IN  1 + (IF before = {} THEN 0 ELSE CHOOSE m \in before : \A n \in before : n <= m)

\* the number of tasks on the longest chain of E, 0 without tasks
LongestChain(E) ==
    LET chains == {ChainTo(E, v) : v \in Vertices}
    IN  IF chains = {} THEN 0 ELSE CHOOSE m \in chains : \A n \in chains : n <= m

\* C27: the number of batches returned is the number of tasks on the longest
\* dependency chain of the hazard graph of the task list: 0 for no task, 1
\* for tasks without hazards, n for n tasks that each conflict with their
\* predecessor.
C27_BatchCount ==
    compiled => Len(batches) = LongestChain(HazardEdges)


\* the acquisition thread t is at, if it is at one
wants(t) ==
    IF calls[t].todo /= <<>> /\ Head(calls[t].todo).do \in {"read", "write"}
           /\ Head(calls[t].todo).pool \notin poisoned
    THEN {Head(calls[t].todo)}
    ELSE {}

\* thread t cannot enter because of u: u holds the lock in a mode that
\* excludes t, or t is a reader behind the waiting writer u
WaitsFor(t, u) ==
    \E w \in wants(t) :
        \/ w.do = "write" /\ holds(u, w.pool, {"read", "write"})
        \/ w.do = "read" /\ holds(u, w.pool, {"write"})
        \/ /\ w.do = "read" /\ u /= t
           /\ \E x \in wants(u) : x.do = "write" /\ x.pool = w.pool /\ ~available(x)

\* image pool before image-view pool, image pool before buffer pool
LockOrder == {<<"image_pool", "image_view_pool">>, <<"image_pool", "buffer_pool">>}

\* C28: a thread that holds the lock of one pool while it acquires the lock
\* of another follows one order (image pool before image-view pool, image
\* pool before buffer pool) and never acquires a lock it holds, and no set of
\* threads waits for each other's pool locks in a cycle.
C28_DeadlockFreedom ==
    /\ \A t \in Threads :
         /\ \A j \in DOMAIN calls[t].guards : \A k \in DOMAIN calls[t].guards :
              j < k => <<calls[t].guards[j].pool, calls[t].guards[k].pool>> \in LockOrder
         /\ \A w \in wants(t) : \A k \in DOMAIN calls[t].guards :
              <<calls[t].guards[k].pool, w.pool>> \in LockOrder
    /\ ~\E S \in SUBSET Threads :
          S /= {} /\ \A t \in S : \E u \in S : WaitsFor(t, u)

\* a thread holds the read guard of the image pool and waits for the write
\* lock of the image-view pool, which another thread holds
C28_Witness ==
    \E t \in Threads : \E u \in Threads :
        /\ t /= u
        /\ holds(t, "image_pool", {"read"})
        /\ Wr("image_view_pool") \in wants(t)
        /\ WaitsFor(t, u)


\* the acquire_image calls that returned, and the present calls that popped
\* an index, in call order
Returned == SelectSeq(swapchain.acquires, LAMBDA a : a.ok)
Popped == SelectSeq(swapchain.presents, LAMBDA p : ~p.none)

FreeAt(b, a) ==
    {o \in DOMAIN allocator.memory_blocks[b] :
        o <= a /\ a < o + allocator.memory_blocks[b][o]}
LiveAt(b, a) ==
    {l \in allocator.live : l.memory = b /\ l.offset <= a /\ a < l.offset + l.size}

=============================================================================
